---- MODULE Spec2Model ----
(***************************************************************************)
(* A model of Subnetting/subnetting.py: the IPv4 subnetting script.        *)
(*                                                                         *)
(* Text (a Python str) is a sequence of one-character strings, so that     *)
(* split, strip, isdigit, int(), str() and format() are computed character *)
(* by character, as the script computes them.                              *)
(*                                                                         *)
(* A Python int that may pass 2^31 - 1 (an address, a subnet size) is a    *)
(* "wide" integer <<hi, lo>> of value hi * 2^16 + lo with 0 <= lo < 2^16:  *)
(* Python's integers are unbounded, the model checker's are 32-bit.        *)
(***************************************************************************)
EXTENDS Integers, Sequences, FiniteSets, TLC

VARIABLES
    pc,                     \* position of the script's top-level code
    input_ipv4_address,     \* line 6
    original_mask,          \* line 9
    number_of_subnets,      \* line 10
    new_mask,               \* line 274
    total_subnets,          \* line 274
    bits_borrowed,          \* line 274
    dotted_decimal_ip,      \* line 281
    binary_format_ip,       \* line 281
    orig_mask_dotted,       \* line 288
    orig_mask_binary,       \* line 288
    base_network_dotted,    \* line 291
    base_network_binary,    \* line 291
    base_network_int,       \* line 294
    new_mask_dotted,        \* line 297
    hosts_per_subnet,       \* line 298
    all_subnets,            \* line 301
    stdout,                 \* what the script has printed
    call,                   \* a single call of one function: its name and arguments
    ret                     \* what that call returned or raised

vars == <<pc, input_ipv4_address, original_mask, number_of_subnets, new_mask,
          total_subnets, bits_borrowed, dotted_decimal_ip, binary_format_ip,
          orig_mask_dotted, orig_mask_binary, base_network_dotted,
          base_network_binary, base_network_int, new_mask_dotted,
          hosts_per_subnet, all_subnets, stdout, call, ret>>

\* A name that is not bound yet (a variable the script has not assigned).
Unset == "unset"

Min(a, b) == IF a < b THEN a ELSE b

(***************************************************************************)
(* Bounds of the model.                                                    *)
(***************************************************************************)
\* The script is run with 1 .. MaxSubnets desired subnets (and a few counts
\* that are refused); a single call of get_subnet_ranges lists 0 .. MaxTotal.
MaxSubnets == 9
MaxTotal == 3
\* A single call of calculate_new_subnet_mask_for_subnets is also given the
\* counts 2^k - 1, 2^k, 2^k + 1 for k up to MaxExp.
MaxExp == 28
\* A single call of cidr_to_subnet_mask is given -MaxOut .. 32 + MaxOut.
MaxOut == 20

(***************************************************************************)
(* Python text.                                                            *)
(***************************************************************************)
Digits == <<"0", "1", "2", "3", "4", "5", "6", "7", "8", "9">>

DigitSet == {Digits[i] : i \in 1..10}

DigitChar(d) == Digits[d + 1]

DigitVal(c) == CHOOSE d \in 0..9 : Digits[d + 1] = c

\* str(n) of an int n >= 0: its decimal digits, no leading zero.
RECURSIVE Str(_)
Str(n) ==
    IF n < 10 THEN <<DigitChar(n)>>
    ELSE Str(n \div 10) \o <<DigitChar(n % 10)>>

\* int(part) of a text of decimal digits (leading zeros allowed).
RECURSIVE ParseInt(_)
ParseInt(s) ==
    IF s = <<>> THEN 0
    ELSE 10 * ParseInt(SubSeq(s, 1, Len(s) - 1)) + DigitVal(s[Len(s)])

\* part.isdigit(): not empty and every character a digit (the model's
\* alphabet holds ASCII only).
IsDigit(s) == s # <<>> /\ \A i \in 1..Len(s) : s[i] \in DigitSet

\* ip_string.strip(): leading and trailing white space removed.
RECURSIVE Strip(_)
Strip(s) ==
    IF s = <<>> THEN s
    ELSE IF s[1] = " " THEN Strip(Tail(s))
    ELSE IF s[Len(s)] = " " THEN Strip(SubSeq(s, 1, Len(s) - 1))
    ELSE s

\* s.split(sep): the pieces between the separators, empty pieces kept.
RECURSIVE Split(_, _)
Split(s, sep) ==
    IF \A i \in 1..Len(s) : s[i] # sep THEN <<s>>
    ELSE LET k == CHOOSE i \in 1..Len(s) :
                      s[i] = sep /\ \A j \in 1..(i - 1) : s[j] # sep
         IN  <<SubSeq(s, 1, k - 1)>> \o Split(SubSeq(s, k + 1, Len(s)), sep)

\* sep.join(parts)
RECURSIVE Join(_, _)
Join(parts, sep) ==
    IF parts = <<>> THEN <<>>
    ELSE IF Len(parts) = 1 THEN parts[1]
    ELSE parts[1] \o <<sep>> \o Join(Tail(parts), sep)

\* s.replace('.', ''): every dot removed.
RemoveDots(s) == SelectSeq(s, LAMBDA c : c # ".")

\* c * n: the character c repeated n times.
Repeat(c, n) == [i \in 1..n |-> c]

\* The binary digits of v >= 0, most significant first, no leading zero.
RECURSIVE BinDigits(_)
BinDigits(v) ==
    IF v < 2 THEN <<DigitChar(v)>>
    ELSE BinDigits(v \div 2) \o <<DigitChar(v % 2)>>

\* format(v, '0<width>b'): binary, padded with zeros to at least width.
FormatBin(v, width) ==
    LET d == BinDigits(v)
    IN  IF Len(d) >= width THEN d ELSE Repeat("0", width - Len(d)) \o d

\* int(s, 2) of a text of binary digits.
RECURSIVE IntBase2(_)
IntBase2(s) ==
    IF s = <<>> THEN 0
    ELSE 2 * IntBase2(SubSeq(s, 1, Len(s) - 1)) + DigitVal(s[Len(s)])

\* [s[i:i+8] for i in range(0, 32, 8)]: slices are clipped to the text.
Octets8(s) ==
    [k \in 1..4 |-> SubSeq(s, Min(8 * (k - 1) + 1, Len(s) + 1), Min(8 * k, Len(s)))]

(***************************************************************************)
(* Python's unbounded integers, where they may pass 2^31 - 1.              *)
(***************************************************************************)
WordBase == 2 ^ 16

WNorm(hi, lo) == <<hi + (lo \div WordBase), lo % WordBase>>

\* a + b
WAdd(a, b) == WNorm(a[1] + b[1], a[2] + b[2])

\* a + k, k a small integer of either sign
WAddInt(a, k) == WNorm(a[1], a[2] + k)

\* k * a, k a small integer >= 0
WMulInt(k, a) == WNorm(k * a[1], k * a[2])

\* 2 ** e
WPow2(e) == IF e >= 16 THEN <<2 ^ (e - 16), 0>> ELSE <<0, 2 ^ e>>

\* (a >> shift) & 0xFF for shift in {0, 8, 16, 24}
WShiftByte(a, shift) ==
    IF shift >= 16 THEN (a[1] \div (2 ^ (shift - 16))) % 256
    ELSE (a[2] \div (2 ^ shift)) % 256

\* int(s, 2) of a text of up to 32 binary digits
WIntBase2(s) ==
    IF Len(s) <= 16 THEN <<0, IntBase2(s)>>
    ELSE <<IntBase2(SubSeq(s, 1, Len(s) - 16)),
           IntBase2(SubSeq(s, Len(s) - 15, Len(s)))>>

\* format(a, '032b')
WFormat032b(a) ==
    IF a[1] = 0 THEN FormatBin(a[2], 32)
    ELSE FormatBin(a[1], 16) \o FormatBin(a[2], 16)

\* x & y and x | y of two integers >= 0
RECURSIVE BitAnd(_, _)
BitAnd(x, y) ==
    IF x = 0 \/ y = 0 THEN 0
    ELSE (x % 2) * (y % 2) + 2 * BitAnd(x \div 2, y \div 2)

RECURSIVE BitOr(_, _)
BitOr(x, y) ==
    IF x = 0 THEN y
    ELSE IF y = 0 THEN x
    ELSE (IF x % 2 = 1 \/ y % 2 = 1 THEN 1 ELSE 0) + 2 * BitOr(x \div 2, y \div 2)

WAnd(a, b) == <<BitAnd(a[1], b[1]), BitAnd(a[2], b[2])>>

WOr(a, b) == <<BitOr(a[1], b[1]), BitOr(a[2], b[2])>>

\* ~m & 0xFFFFFFFF for 0 <= m < 2^32: Python's ~m is -m - 1, and the AND
\* keeps its low 32 bits, 2^32 - 1 - m.
WNot32(m) == <<(WordBase - 1 - m[1]) % WordBase, WordBase - 1 - m[2]>>

(***************************************************************************)
(* What a call gives back: a value, or a raised ValueError.                *)
(***************************************************************************)
Return(v) == [exc |-> "None", value |-> v, msg |-> Unset]

Raise(m) == [exc |-> "ValueError", value |-> Unset, msg |-> m]

(***************************************************************************)
(* calculate_new_subnet_mask_for_subnets                                   *)
(***************************************************************************)
\* The whole part of log2(n), n >= 1.
RECURSIVE FloorLog2(_)
FloorLog2(n) == IF n < 2 THEN 0 ELSE 1 + FloorLog2(n \div 2)

\* A variant that rounds down.
CeilLog2Floor(n) == FloorLog2(n)

\* math.ceil(math.log2(n)) for an int n >= 1.  math.log2 gives the double
\* nearest to log2(n): exact for a power of two, and for any other n below
\* 2^31 further from a whole number (more than 1e-10) than a double's
\* rounding error (less than 1e-14), so math.ceil sees the true value.
\* (From 2^49 + 1 on the double rounds down to a whole number; the new mask
\* is then past 32 either way.)
CeilLog2(n) == IF 2 ^ FloorLog2(n) = n THEN FloorLog2(n) ELSE FloorLog2(n) + 1

\* A variant that refuses a new mask of 32.
NewMaskStrict(base_mask, bits_to_borrow) == base_mask + bits_to_borrow >= 32

\* The test of line 33.
NewMaskTooLong(base_mask, bits_to_borrow) == base_mask + bits_to_borrow > 32

calculate_new_subnet_mask_for_subnets(base_mask, desired_subnets) ==
    IF ~(0 <= base_mask /\ base_mask <= 32)
      THEN Raise([text |-> "CIDR must be between 0 and 32."])
    ELSE IF desired_subnets <= 0
      THEN Raise([text |-> "Number of subnets must be positive."])
    ELSE LET bits_to_borrow == CeilLog2(desired_subnets)
             new_mask_ == base_mask + bits_to_borrow
         IN  IF NewMaskTooLong(base_mask, bits_to_borrow)
               THEN Raise([text |-> "Cannot create {desired_subnets} subnets from /{base_mask} because /{new_mask} is > /32.",
                           desired_subnets |-> desired_subnets,
                           base_mask |-> base_mask,
                           new_mask |-> new_mask_])
             ELSE Return(<<new_mask_, 2 ^ bits_to_borrow, bits_to_borrow>>)

(***************************************************************************)
(* get_ip_address                                                          *)
(***************************************************************************)
\* The check of one part in the loop of lines 60-67: "ok", or why not.
OctetCheck(part) ==
    IF ~IsDigit(part) THEN "not a valid number"
    ELSE IF ParseInt(part) < 0 \/ ParseInt(part) > 255 THEN "outside 0-255 range"
    ELSE "ok"

get_ip_address(ip_string) ==
    LET parts == Split(Strip(ip_string), ".")
    IN  IF Len(parts) # 4
          THEN Raise([text |-> "The IPv4 address must have exactly four octets."])
        ELSE IF \E i \in 1..4 : OctetCheck(parts[i]) # "ok"
          THEN LET k == CHOOSE i \in 1..4 :
                            /\ OctetCheck(parts[i]) # "ok"
                            /\ \A j \in 1..(i - 1) : OctetCheck(parts[j]) = "ok"
               IN  Raise([text |-> "Octet '{part}' is ...",
                          why |-> OctetCheck(parts[k]),
                          part |-> parts[k]])
        ELSE LET octets_decimal == [i \in 1..4 |-> Str(ParseInt(parts[i]))]
                 octets_binary == [i \in 1..4 |-> FormatBin(ParseInt(parts[i]), 8)]
             IN  Return(<<Join(octets_decimal, "."), Join(octets_binary, ".")>>)

(***************************************************************************)
(* cidr_to_subnet_mask                                                     *)
(***************************************************************************)
\* A variant with one one-bit too many.
BinaryMaskOneMore(cidr_int) ==
    Repeat("1", Min(cidr_int + 1, 32)) \o Repeat("0", 32 - Min(cidr_int + 1, 32))

\* Line 93: '1' * cidr_int + '0' * (32 - cidr_int)
BinaryMask(cidr_int) == Repeat("1", cidr_int) \o Repeat("0", 32 - cidr_int)

cidr_to_subnet_mask(cidr_int) ==
    IF ~(0 <= cidr_int /\ cidr_int <= 32)
      THEN Raise([text |-> "CIDR must be in [0..32]."])
    ELSE LET binary_mask == BinaryMask(cidr_int)
             octets_binary == Octets8(binary_mask)
             octets_decimal == [i \in 1..4 |-> Str(IntBase2(octets_binary[i]))]
         IN  Return(<<Join(octets_decimal, "."), Join(octets_binary, ".")>>)

(***************************************************************************)
(* get_network_address                                                     *)
(***************************************************************************)
\* A variant that ORs.
NetworkIntOr(ip_int, mask_int) == WOr(ip_int, mask_int)

\* Line 123: ip_int & mask_int
NetworkInt(ip_int, mask_int) == WAnd(ip_int, mask_int)

get_network_address(ip_binary, mask_binary) ==
    LET ip_raw == RemoveDots(ip_binary)
        mask_raw == RemoveDots(mask_binary)
        ip_int == WIntBase2(ip_raw)
        mask_int == WIntBase2(mask_raw)
        network_int == NetworkInt(ip_int, mask_int)
        network_binary == WFormat032b(network_int)
        network_octets_binary == Octets8(network_binary)
        network_octets_decimal ==
            [i \in 1..4 |-> Str(IntBase2(network_octets_binary[i]))]
    IN  Return(<<Join(network_octets_decimal, "."),
                 Join(network_octets_binary, ".")>>)

(***************************************************************************)
(* calculate_possible_hosts                                                *)
(***************************************************************************)
calculate_possible_hosts(cidr_int) ==
    IF cidr_int = 32 THEN <<0, 1>>
    ELSE IF cidr_int = 31 THEN <<0, 2>>
    ELSE WAddInt(WPow2(32 - cidr_int), -2)

(***************************************************************************)
(* int_to_dotted                                                           *)
(***************************************************************************)
\* A variant that writes the least significant byte first.
int_to_dotted_lsb_first(ip_int) ==
    LET octets == [k \in 1..4 |-> Str(WShiftByte(ip_int, 8 * (k - 1)))]
    IN  Join(octets, ".")

\* Lines 174-181: i = 3, 2, 1, 0.
int_to_dotted(ip_int) ==
    LET octets == [k \in 1..4 |-> Str(WShiftByte(ip_int, 8 * (4 - k)))]
    IN  Join(octets, ".")

(***************************************************************************)
(* get_subnet_ranges                                                       *)
(***************************************************************************)
NotApplicable == <<"N", "/", "A">>

\* The test of line 217.
NoHostRange(new_mask_) == new_mask_ >= 31

\* A variant that counts the subnets from 1.
SubnetNetworkIntFromOne(base_network_int_, i, subnet_size) ==
    WAdd(base_network_int_, WMulInt(i + 1, subnet_size))

\* Line 207: base_network_int + (i * subnet_size)
SubnetNetworkInt(base_network_int_, i, subnet_size) ==
    WAdd(base_network_int_, WMulInt(i, subnet_size))

\* The dict of one pass of the loop of lines 205-231, i from 0.
SubnetDict(base_network_int_, new_mask_, subnet_size, i) ==
    LET subnet_network_int == SubnetNetworkInt(base_network_int_, i, subnet_size)
        subnet_broadcast_int == WAddInt(WAdd(subnet_network_int, subnet_size), -1)
    IN  [subnet_index |-> i + 1,
         network |-> int_to_dotted(subnet_network_int),
         broadcast |-> int_to_dotted(subnet_broadcast_int),
         first_host |-> IF NoHostRange(new_mask_) THEN NotApplicable
                        ELSE int_to_dotted(WAddInt(subnet_network_int, 1)),
         last_host |-> IF NoHostRange(new_mask_) THEN NotApplicable
                       ELSE int_to_dotted(WAddInt(subnet_broadcast_int, -1))]

get_subnet_ranges(base_network_int_, new_mask_, total_subnets_) ==
    LET subnet_size == WPow2(32 - new_mask_)
    IN  Return([k \in 1..total_subnets_ |->
                    SubnetDict(base_network_int_, new_mask_, subnet_size, k - 1)])

(***************************************************************************)
(* get_broadcast_address                                                   *)
(***************************************************************************)
get_broadcast_address(ip_binary, mask_binary) ==
    LET ip_raw == RemoveDots(ip_binary)
        mask_raw == RemoveDots(mask_binary)
        ip_int == WIntBase2(ip_raw)
        mask_int == WIntBase2(mask_raw)
        inverted_mask == WNot32(mask_int)
        broadcast_int == WOr(ip_int, inverted_mask)
        broadcast_binary == WFormat032b(broadcast_int)
        broadcast_octets_binary == Octets8(broadcast_binary)
        broadcast_octets_decimal ==
            [i \in 1..4 |-> Str(IntBase2(broadcast_octets_binary[i]))]
    IN  Return(<<Join(broadcast_octets_binary, "."),
                 Join(broadcast_octets_decimal, ".")>>)

(***************************************************************************)
(* The script's top-level code, lines 4-13 and 269-322.                    *)
(***************************************************************************)
\* Text from decimal numbers: Txt(<<10, 0, 0, 1>>) is "10.0.0.1".
Txt(octets) == Join([i \in 1..Len(octets) |-> Str(octets[i])], ".")

\* What the user may type as the address.
AddressInputs ==
    {Txt(<<10, 10, 10, 10>>), Txt(<<255, 255, 255, 255>>), Txt(<<0, 0, 0, 0>>),
     Txt(<<192, 168, 1, 1>>), Txt(<<172, 16, 254, 129>>),
     Txt(<<170, 85, 170, 85>>), Txt(<<85, 170, 85, 170>>),
     Join(<<<<"0", "1", "0">>, <<"0", "0">>, <<"0", "7">>, <<"2", "5", "5">>>>, "."),
     <<" ">> \o Txt(<<10, 10, 10, 10>>) \o <<" ">>,
     Txt(<<10, 10, 10>>), Txt(<<256, 1, 1, 1>>), Txt(<<1, 1, 1, 1, 1>>),
     Join(<<<<"a">>, <<"1">>, <<"1">>, <<"1">>>>, "."),
     Join(<<<<"1">>, <<>>, <<"1">>, <<"1">>>>, ".")}

\* What int(input()) may give as the mask and as the number of subnets.
MaskInputs == (-1)..33

\* 100000 subnets are asked only of a mask that refuses them (from a shorter
\* mask the script would list 131072 subnets, past what the model lists).
SubnetInputs(m) ==
    IF m >= 16 THEN ((-1)..MaxSubnets) \cup {100000} ELSE (-1)..MaxSubnets

Init ==
    /\ pc = "input"
    /\ input_ipv4_address = Unset
    /\ original_mask = Unset
    /\ number_of_subnets = Unset
    /\ new_mask = Unset
    /\ total_subnets = Unset
    /\ bits_borrowed = Unset
    /\ dotted_decimal_ip = Unset
    /\ binary_format_ip = Unset
    /\ orig_mask_dotted = Unset
    /\ orig_mask_binary = Unset
    /\ base_network_dotted = Unset
    /\ base_network_binary = Unset
    /\ base_network_int = Unset
    /\ new_mask_dotted = Unset
    /\ hosts_per_subnet = Unset
    /\ all_subnets = Unset
    /\ stdout = <<>>
    /\ call = Unset
    /\ ret = Unset

\* Lines 6-10, the two int() calls succeeding.
ReadInput ==
    /\ pc = "input"
    /\ \E a \in AddressInputs, m \in MaskInputs :
       \E n \in SubnetInputs(m) :
          /\ input_ipv4_address' = a
          /\ original_mask' = m
          /\ number_of_subnets' = n
    /\ pc' = "plan"
    /\ UNCHANGED <<new_mask, total_subnets, bits_borrowed, dotted_decimal_ip,
                   binary_format_ip, orig_mask_dotted, orig_mask_binary,
                   base_network_dotted, base_network_binary, base_network_int,
                   new_mask_dotted, hosts_per_subnet, all_subnets, stdout,
                   call, ret>>

\* Lines 6-13, an int() call raising ValueError: the mask or the number of
\* subnets typed is not a number.
ReadInputInvalid ==
    /\ pc = "input"
    /\ \E a \in AddressInputs : input_ipv4_address' = a
    /\ stdout' = Append(stdout, [text |-> "Enter a valid number for the subnet mask."])
    /\ pc' = "exit"
    /\ UNCHANGED <<original_mask, number_of_subnets, new_mask, total_subnets,
                   bits_borrowed, dotted_decimal_ip, binary_format_ip,
                   orig_mask_dotted, orig_mask_binary, base_network_dotted,
                   base_network_binary, base_network_int, new_mask_dotted,
                   hosts_per_subnet, all_subnets, call, ret>>

\* Lines 272-277.
PlanStep ==
    /\ pc = "plan"
    /\ LET r == calculate_new_subnet_mask_for_subnets(original_mask, number_of_subnets)
       IN  IF r.exc = "ValueError"
             THEN /\ stdout' = Append(stdout, [text |-> "Error:", e |-> r.msg])
                  /\ pc' = "exit"
                  /\ UNCHANGED <<new_mask, total_subnets, bits_borrowed>>
             ELSE /\ new_mask' = r.value[1]
                  /\ total_subnets' = r.value[2]
                  /\ bits_borrowed' = r.value[3]
                  /\ pc' = "parse"
                  /\ UNCHANGED stdout
    /\ UNCHANGED <<input_ipv4_address, original_mask, number_of_subnets,
                   dotted_decimal_ip, binary_format_ip, orig_mask_dotted,
                   orig_mask_binary, base_network_dotted, base_network_binary,
                   base_network_int, new_mask_dotted, hosts_per_subnet,
                   all_subnets, call, ret>>

\* Lines 280-284.
ParseStep ==
    /\ pc = "parse"
    /\ LET r == get_ip_address(input_ipv4_address)
       IN  IF r.exc = "ValueError"
             THEN /\ stdout' = Append(stdout, [text |-> "Error:", e |-> r.msg])
                  /\ pc' = "exit"
                  /\ UNCHANGED <<dotted_decimal_ip, binary_format_ip>>
             ELSE /\ dotted_decimal_ip' = r.value[1]
                  /\ binary_format_ip' = r.value[2]
                  /\ pc' = "orig_mask"
                  /\ UNCHANGED stdout
    /\ UNCHANGED <<input_ipv4_address, original_mask, number_of_subnets,
                   new_mask, total_subnets, bits_borrowed, orig_mask_dotted,
                   orig_mask_binary, base_network_dotted, base_network_binary,
                   base_network_int, new_mask_dotted, hosts_per_subnet,
                   all_subnets, call, ret>>

\* Line 288.  The mask passed PlanStep's range check, so no ValueError here.
OrigMaskStep ==
    /\ pc = "orig_mask"
    /\ LET r == cidr_to_subnet_mask(original_mask)
       IN  /\ orig_mask_dotted' = r.value[1]
           /\ orig_mask_binary' = r.value[2]
    /\ pc' = "base_network"
    /\ UNCHANGED <<input_ipv4_address, original_mask, number_of_subnets,
                   new_mask, total_subnets, bits_borrowed, dotted_decimal_ip,
                   binary_format_ip, base_network_dotted, base_network_binary,
                   base_network_int, new_mask_dotted, hosts_per_subnet,
                   all_subnets, stdout, call, ret>>

\* Lines 291-294.
BaseNetworkStep ==
    /\ pc = "base_network"
    /\ LET r == get_network_address(binary_format_ip, orig_mask_binary)
       IN  /\ base_network_dotted' = r.value[1]
           /\ base_network_binary' = r.value[2]
           /\ base_network_int' = WIntBase2(RemoveDots(r.value[2]))
    /\ pc' = "new_mask_info"
    /\ UNCHANGED <<input_ipv4_address, original_mask, number_of_subnets,
                   new_mask, total_subnets, bits_borrowed, dotted_decimal_ip,
                   binary_format_ip, orig_mask_dotted, orig_mask_binary,
                   new_mask_dotted, hosts_per_subnet, all_subnets, stdout,
                   call, ret>>

\* Lines 297-298.
NewMaskInfoStep ==
    /\ pc = "new_mask_info"
    /\ new_mask_dotted' = cidr_to_subnet_mask(new_mask).value[1]
    /\ hosts_per_subnet' = calculate_possible_hosts(new_mask)
    /\ pc' = "enumerate"
    /\ UNCHANGED <<input_ipv4_address, original_mask, number_of_subnets,
                   new_mask, total_subnets, bits_borrowed, dotted_decimal_ip,
                   binary_format_ip, orig_mask_dotted, orig_mask_binary,
                   base_network_dotted, base_network_binary, base_network_int,
                   all_subnets, stdout, call, ret>>

\* Line 301.
EnumerateStep ==
    /\ pc = "enumerate"
    /\ all_subnets' = get_subnet_ranges(base_network_int, new_mask, total_subnets).value
    /\ pc' = "output"
    /\ UNCHANGED <<input_ipv4_address, original_mask, number_of_subnets,
                   new_mask, total_subnets, bits_borrowed, dotted_decimal_ip,
                   binary_format_ip, orig_mask_dotted, orig_mask_binary,
                   base_network_dotted, base_network_binary, base_network_int,
                   new_mask_dotted, hosts_per_subnet, stdout, call, ret>>

\* Lines 305-322: the summary, then three lines for each subnet.
OutputStep ==
    /\ pc = "output"
    /\ stdout' = stdout
                 \o <<[text |-> "RESULTS",
                       ip |-> dotted_decimal_ip,
                       cidr |-> original_mask,
                       mask |-> orig_mask_dotted,
                       base_dotted |-> base_network_dotted,
                       base_binary |-> base_network_binary,
                       desired |-> number_of_subnets,
                       new_cidr |-> new_mask,
                       new_mask |-> new_mask_dotted,
                       bits |-> bits_borrowed,
                       total |-> total_subnets,
                       hosts |-> hosts_per_subnet]>>
                 \o [i \in 1..Len(all_subnets) |->
                        [text |-> "Subnet", subnet |-> all_subnets[i], cidr |-> new_mask]]
    /\ pc' = "done"
    /\ UNCHANGED <<input_ipv4_address, original_mask, number_of_subnets,
                   new_mask, total_subnets, bits_borrowed, dotted_decimal_ip,
                   binary_format_ip, orig_mask_dotted, orig_mask_binary,
                   base_network_dotted, base_network_binary, base_network_int,
                   new_mask_dotted, hosts_per_subnet, all_subnets, call, ret>>

Next ==
    \/ ReadInput
    \/ ReadInputInvalid
    \/ PlanStep
    \/ ParseStep
    \/ OrigMaskStep
    \/ BaseNetworkStep
    \/ NewMaskInfoStep
    \/ EnumerateStep
    \/ OutputStep

Spec == Init /\ [][Next]_vars

(***************************************************************************)
(* One call of one function, on arguments drawn from bounded sets.         *)
(***************************************************************************)
\* Counts for calculate_new_subnet_mask_for_subnets: the small ones, and
\* the powers of two up to 2^MaxExp with their neighbours.
PlanCounts ==
    ((-1)..MaxSubnets) \cup {100000}
    \cup {2 ^ k + d : k \in 1..MaxExp, d \in {-1, 0, 1}}

\* The text of one octet, as it may be typed.
OctetTexts ==
    {<<"0">>, <<"0", "0">>, <<"9">>, <<"0", "1", "0">>, <<"2", "5", "5">>,
     <<"0", "2", "5", "5">>, <<"2", "5", "6">>, <<"a">>, <<>>}

\* Address texts for get_ip_address: four octet texts, and a few texts with
\* another number of parts or with white space around them.
IpStrings ==
    {Join(<<a, b, c, d>>, ".") : a \in OctetTexts, b \in OctetTexts,
                                  c \in OctetTexts, d \in OctetTexts}
    \cup {Txt(<<10, 10, 10>>), Txt(<<1, 2, 3, 4, 5>>), <<>>,
          <<" ">> \o Txt(<<192, 168, 1, 1>>),
          Txt(<<192, 168, 1, 1>>) \o <<" ", " ">>,
          Join(<<<<"1">>, <<" ", "2">>, <<"3">>, <<"4">>>>, ".")}

\* The value of four octets, most significant first.
Pack(o) == <<o[1] * 256 + o[2], o[3] * 256 + o[4]>>

\* 32-bit integers for int_to_dotted.
OctetValues == {0, 1, 9, 10, 99, 100, 128, 255}

Addresses ==
    {Pack(<<a, b, c, d>>) : a \in OctetValues, b \in OctetValues,
                             c \in OctetValues, d \in OctetValues}

\* Base networks for get_subnet_ranges.
BaseNetworks ==
    {Pack(<<a, b, c, d>>) : a \in {0, 10, 255}, b \in {0, 255}, c \in {0, 255},
                             d \in {0, 128, 192, 252, 254, 255}}

InitCall ==
    /\ pc = "call"
    /\ \/ \E m \in MaskInputs, n \in PlanCounts :
             call = [fn |-> "calculate_new_subnet_mask_for_subnets", args |-> <<m, n>>]
       \/ \E t \in IpStrings :
             call = [fn |-> "get_ip_address", args |-> <<t>>]
       \/ \E c \in (-MaxOut)..(32 + MaxOut) :
             call = [fn |-> "cidr_to_subnet_mask", args |-> <<c>>]
       \/ \E x \in Addresses :
             call = [fn |-> "int_to_dotted", args |-> <<x>>]
       \/ \E b \in BaseNetworks, m \in 0..32, t \in 0..MaxTotal :
             call = [fn |-> "get_subnet_ranges", args |-> <<b, m, t>>]
    /\ ret = Unset
    /\ input_ipv4_address = Unset
    /\ original_mask = Unset
    /\ number_of_subnets = Unset
    /\ new_mask = Unset
    /\ total_subnets = Unset
    /\ bits_borrowed = Unset
    /\ dotted_decimal_ip = Unset
    /\ binary_format_ip = Unset
    /\ orig_mask_dotted = Unset
    /\ orig_mask_binary = Unset
    /\ base_network_dotted = Unset
    /\ base_network_binary = Unset
    /\ base_network_int = Unset
    /\ new_mask_dotted = Unset
    /\ hosts_per_subnet = Unset
    /\ all_subnets = Unset
    /\ stdout = <<>>

\* The call returns (or raises): nothing else changes.
Returns(fn, r) ==
    /\ pc = "call"
    /\ call.fn = fn
    /\ ret' = r
    /\ pc' = "returned"
    /\ UNCHANGED <<input_ipv4_address, original_mask, number_of_subnets,
                   new_mask, total_subnets, bits_borrowed, dotted_decimal_ip,
                   binary_format_ip, orig_mask_dotted, orig_mask_binary,
                   base_network_dotted, base_network_binary, base_network_int,
                   new_mask_dotted, hosts_per_subnet, all_subnets, stdout, call>>

CallPlan ==
    /\ call.fn = "calculate_new_subnet_mask_for_subnets"
    /\ Returns("calculate_new_subnet_mask_for_subnets",
               calculate_new_subnet_mask_for_subnets(call.args[1], call.args[2]))

CallGetIpAddress ==
    /\ call.fn = "get_ip_address"
    /\ Returns("get_ip_address", get_ip_address(call.args[1]))

CallCidrToSubnetMask ==
    /\ call.fn = "cidr_to_subnet_mask"
    /\ Returns("cidr_to_subnet_mask", cidr_to_subnet_mask(call.args[1]))

CallIntToDotted ==
    /\ call.fn = "int_to_dotted"
    /\ Returns("int_to_dotted", Return(int_to_dotted(call.args[1])))

CallGetSubnetRanges ==
    /\ call.fn = "get_subnet_ranges"
    /\ Returns("get_subnet_ranges",
               get_subnet_ranges(call.args[1], call.args[2], call.args[3]))

NextCall ==
    \/ CallPlan
    \/ CallGetIpAddress
    \/ CallCidrToSubnetMask
    \/ CallIntToDotted
    \/ CallGetSubnetRanges

SpecCall == InitCall /\ [][NextCall]_vars

(***************************************************************************)
(* Notions the properties are stated with.  They are arithmetic on the     *)
(* values, written without the script's text and bit operations.           *)
(***************************************************************************)
WLess(a, b) == a[1] < b[1] \/ (a[1] = b[1] /\ a[2] < b[2])

WLeq(a, b) == a = b \/ WLess(a, b)

\* 2^32 - 1, the highest address.
TopAddress == <<WordBase - 1, WordBase - 1>>

\* The address a dotted text denotes: its four decimal numbers, the first
\* the most significant.
DottedValue(t) ==
    LET parts == Split(t, ".")
    IN  Pack([i \in 1..4 |-> ParseInt(parts[i])])

\* a with its k low bits cleared: a - (a mod 2^k), 0 <= k <= 32.
ClearLow(a, k) ==
    IF k >= 16 THEN <<a[1] - (a[1] % (2 ^ (k - 16))), 0>>
    ELSE <<a[1], a[2] - (a[2] % (2 ^ k))>>

\* 2^32 - 2^(32 - p): p one-bits, then 32 - p zero-bits.
MaskValue(p) == WNorm(WordBase - WPow2(32 - p)[1], 0 - WPow2(32 - p)[2])

\* The least b >= 0 with 2^b >= n, for 1 <= n <= 2^30.
LeastBits(n) ==
    CHOOSE b \in 0..30 : 2 ^ b >= n /\ \A c \in 0..(b - 1) : 2 ^ c < n

\* n > 2^k, for n < 2^31.
ExceedsPow2(n, k) == k <= 30 /\ n > 2 ^ k

\* A text of four parts, each of digits only and of value at most 255.
ValidDotted(t) ==
    LET parts == Split(t, ".")
    IN  /\ Len(parts) = 4
        /\ \A i \in 1..4 : IsDigit(parts[i]) /\ ParseInt(parts[i]) <= 255

RECURSIVE StripZeros(_)
StripZeros(part) ==
    IF Len(part) > 1 /\ part[1] = "0" THEN StripZeros(Tail(part)) ELSE part

\* The text with the leading zeros of each octet removed.
Normalize(t) ==
    LET parts == Split(t, ".")
    IN  Join([i \in 1..Len(parts) |-> StripZeros(parts[i])], ".")

Returned(fn) == pc = "returned" /\ call.fn = fn

\* base + total * 2^(32 - prefix) - 1: the last address an enumeration names.
LastAddress(base, prefix, total) ==
    WAddInt(WAdd(base, WMulInt(total, WPow2(32 - prefix))), -1)

(***************************************************************************)
(* The properties.                                                         *)
(***************************************************************************)

\* C1: whenever calculate_new_subnet_mask_for_subnets succeeds on a mask in
\* 0..32 and a count n >= 1, the bits borrowed are the least b >= 0 with
\* 2^b >= n (0 for n = 1), the new mask is the mask plus b, the total is 2^b,
\* and the total is at least n.
C1_PlanArithmetic ==
    (/\ Returned("calculate_new_subnet_mask_for_subnets")
     /\ call.args[1] \in 0..32
     /\ call.args[2] >= 1
     /\ ret.exc = "None")
    => LET n == call.args[2]
           b == ret.value[3]
       IN  /\ b >= 0
           /\ 2 ^ b >= n
           /\ \A c \in 0..(b - 1) : 2 ^ c < n
           /\ (n = 1 => b = 0)
           /\ ret.value[1] = call.args[1] + b
           /\ ret.value[2] = 2 ^ b
           /\ ret.value[2] >= n

C1_Witness ==
    /\ Returned("calculate_new_subnet_mask_for_subnets")
    /\ call.args = <<24, 5>>
    /\ ret.exc = "None"
    /\ ret.value = <<27, 8, 3>>

\* C2: on a mask p in 0..32 and a count n >= 1 the call raises exactly when
\* p plus the least b with 2^b >= n passes 32, which is exactly when
\* n > 2^(32 - p); a new mask of 32 is accepted; a raise returns no values,
\* and its message names the count and the mask that is too long.
C2_CapacityError ==
    (/\ Returned("calculate_new_subnet_mask_for_subnets")
     /\ call.args[1] \in 0..32
     /\ call.args[2] >= 1)
    => LET p == call.args[1]
           n == call.args[2]
       IN  /\ (ret.exc = "ValueError") <=> (p + LeastBits(n) > 32)
           /\ (ret.exc = "ValueError") <=> ExceedsPow2(n, 32 - p)
           /\ (p + LeastBits(n) = 32) => (ret.exc = "None" /\ ret.value[1] = 32)
           /\ (ret.exc = "ValueError") =>
                 /\ ret.value = Unset
                 /\ ret.msg.desired_subnets = n
                 /\ ret.msg.new_mask = p + LeastBits(n)
           /\ ret.exc \in {"None", "ValueError"}

C2_Witness ==
    /\ Returned("calculate_new_subnet_mask_for_subnets")
    /\ call.args = <<31, 3>>
    /\ ret.exc = "ValueError"

\* C3: get_subnet_ranges returns exactly total_subnets descriptors; the one
\* at position i (from 0) has index i + 1, network base + i * size and
\* broadcast network + size - 1, size being 2^(32 - new_mask); so indices and
\* networks ascend together.  (The addresses are those the descriptors
\* report.)
C3_Enumeration ==
    Returned("get_subnet_ranges")
    => LET base == call.args[1]
           size == WPow2(32 - call.args[2])
           d == ret.value
       IN  /\ ret.exc = "None"
           /\ Len(d) = call.args[3]
           /\ \A k \in 1..Len(d) :
                 /\ d[k].subnet_index = k
                 /\ DottedValue(d[k].network) = WAdd(base, WMulInt(k - 1, size))
                 /\ DottedValue(d[k].broadcast)
                       = WAddInt(WAdd(DottedValue(d[k].network), size), -1)
           /\ \A k \in 1..(Len(d) - 1) :
                 WLess(DottedValue(d[k].network), DottedValue(d[k + 1].network))

\* C4: in what get_subnet_ranges returns, each descriptor's broadcast plus
\* one is the next descriptor's network, as the descriptors report them.
C4_Contiguous ==
    Returned("get_subnet_ranges")
    => \A k \in 1..(Len(ret.value) - 1) :
          WAddInt(DottedValue(ret.value[k].broadcast), 1)
             = DottedValue(ret.value[k + 1].network)

\* C5: in what get_subnet_ranges returns, a new mask of 31 or 32 gives
\* "N/A" for both hosts of every descriptor; a new mask up to 30 gives
\* first host network + 1 and last host broadcast - 1, with
\* network < first host <= last host < broadcast.
C5_HostRange ==
    Returned("get_subnet_ranges")
    => \A k \in 1..Len(ret.value) :
          LET d == ret.value[k]
          IN  IF call.args[2] >= 31
                THEN d.first_host = NotApplicable /\ d.last_host = NotApplicable
              ELSE /\ d.first_host # NotApplicable
                   /\ d.last_host # NotApplicable
                   /\ DottedValue(d.first_host) = WAddInt(DottedValue(d.network), 1)
                   /\ DottedValue(d.last_host) = WAddInt(DottedValue(d.broadcast), -1)
                   /\ WLess(DottedValue(d.network), DottedValue(d.first_host))
                   /\ WLeq(DottedValue(d.first_host), DottedValue(d.last_host))
                   /\ WLess(DottedValue(d.last_host), DottedValue(d.broadcast))

\* C6: get_subnet_ranges raises, and returns no descriptors, whenever
\* base + total * size - 1 passes 2^32 - 1.
C6_OverflowError ==
    (/\ Returned("get_subnet_ranges")
     /\ WLess(TopAddress, LastAddress(call.args[1], call.args[2], call.args[3])))
    => ret.exc # "None"

\* The three properties above hold of every call in which no address passes
\* 2^32 - 1, and C3 fails in every call in which one does.
NoOverflow ==
    WLeq(LastAddress(call.args[1], call.args[2], call.args[3]), TopAddress)

EnumerationWithoutOverflow ==
    (Returned("get_subnet_ranges") /\ NoOverflow)
    => (C3_Enumeration /\ C4_Contiguous /\ C5_HostRange)

EnumerationWithOverflow ==
    (Returned("get_subnet_ranges") /\ ~NoOverflow) => ~C3_Enumeration

\* They hold of every run of the script as well (see C10 for C3).
ScriptEnumeration ==
    (pc \in {"output", "done"})
    => /\ \A k \in 1..(Len(all_subnets) - 1) :
             WAddInt(DottedValue(all_subnets[k].broadcast), 1)
                = DottedValue(all_subnets[k + 1].network)
       /\ \A k \in 1..Len(all_subnets) :
             LET d == all_subnets[k]
             IN  IF new_mask >= 31
                   THEN d.first_host = NotApplicable /\ d.last_host = NotApplicable
                 ELSE /\ DottedValue(d.first_host) = WAddInt(DottedValue(d.network), 1)
                      /\ DottedValue(d.last_host) = WAddInt(DottedValue(d.broadcast), -1)
                      /\ WLess(DottedValue(d.network), DottedValue(d.first_host))
                      /\ WLeq(DottedValue(d.first_host), DottedValue(d.last_host))
                      /\ WLess(DottedValue(d.last_host), DottedValue(d.broadcast))

\* C7: once the script has the base network, it is the typed address with
\* its low 32 - original_mask bits cleared, in all three of its forms; so
\* it is 0.0.0.0 for a mask of 0 and the address itself for a mask of 32.
C7_BaseNetwork ==
    (pc \in {"new_mask_info", "enumerate", "output", "done"})
    => LET a == DottedValue(Strip(input_ipv4_address))
       IN  /\ base_network_int = ClearLow(a, 32 - original_mask)
           /\ DottedValue(base_network_dotted) = base_network_int
           /\ WIntBase2(RemoveDots(base_network_binary)) = base_network_int
           /\ (original_mask = 0 => base_network_dotted = Txt(<<0, 0, 0, 0>>))
           /\ (original_mask = 32 => base_network_int = a)

C7_Witness ==
    /\ pc = "done"
    /\ input_ipv4_address = Txt(<<172, 16, 254, 129>>)
    /\ original_mask = 19
    /\ new_mask = 21
    /\ base_network_dotted = Txt(<<172, 16, 224, 0>>)

\* C8: for a prefix p in 0..32 cidr_to_subnet_mask gives the value
\* 2^32 - 2^(32 - p), p one-bits then 32 - p zero-bits, both as four groups
\* of eight binary digits and as dotted decimal; for any other p it raises.
C8_Mask ==
    Returned("cidr_to_subnet_mask")
    => LET p == call.args[1]
       IN  IF p \in 0..32
             THEN /\ ret.exc = "None"
                  /\ LET bits == RemoveDots(ret.value[2])
                     IN  /\ Len(bits) = 32
                         /\ Len(ret.value[2]) = 35
                         /\ \A i \in 1..32 : bits[i] = (IF i <= p THEN "1" ELSE "0")
                         /\ WIntBase2(bits) = MaskValue(p)
                  /\ DottedValue(ret.value[1]) = MaskValue(p)
                  /\ (p = 0 => ret.value[1] = Txt(<<0, 0, 0, 0>>))
                  /\ (p = 32 => ret.value[1] = Txt(<<255, 255, 255, 255>>))
           ELSE ret.exc = "ValueError" /\ ret.value = Unset

C8_Witness ==
    /\ Returned("cidr_to_subnet_mask")
    /\ call.args[1] = 19
    /\ ret.exc = "None"
    /\ ret.value[1] = Txt(<<255, 255, 224, 0>>)

\* C9: the text int_to_dotted gives for x in 0 .. 2^32 - 1 is accepted by
\* get_ip_address and packs back to x; and for a valid dotted text s,
\* get_ip_address accepts s and int_to_dotted of its packed value is s with
\* the leading zeros of each octet removed.
C9_RoundTrip ==
    /\ Returned("int_to_dotted")
       => LET r == get_ip_address(ret.value)
          IN  /\ r.exc = "None"
              /\ WIntBase2(RemoveDots(r.value[2])) = call.args[1]
              /\ r.value[1] = ret.value
    /\ (Returned("get_ip_address") /\ ValidDotted(call.args[1]))
       => /\ ret.exc = "None"
          /\ int_to_dotted(WIntBase2(RemoveDots(ret.value[2]))) = Normalize(call.args[1])
          /\ ret.value[1] = Normalize(call.args[1])

C9_Witness ==
    /\ Returned("get_ip_address")
    /\ call.args[1] = Join(<<<<"0", "1", "0">>, <<"0", "0">>, <<"0", "2", "5", "5">>, <<"9">>>>, ".")
    /\ ret.exc = "None"
    /\ ret.value[1] = Txt(<<10, 0, 255, 9>>)

\* C10: when the script has enumerated, the descriptors cover the original
\* block exactly: there are total_subnets of them, the first network is the
\* base network, the last broadcast is the base network OR the complement
\* of the original mask (get_broadcast_address), the last address is at
\* most 2^32 - 1, and every network and broadcast reported is the unwrapped
\* base + i * size and base + (i + 1) * size - 1.
C10_CoversOriginalBlock ==
    (pc \in {"output", "done"})
    => LET n == Len(all_subnets)
           size == WPow2(32 - new_mask)
       IN  /\ n = total_subnets
           /\ n >= 1
           /\ all_subnets[1].network = base_network_dotted
           /\ all_subnets[n].broadcast
                 = get_broadcast_address(base_network_binary, orig_mask_binary).value[2]
           /\ DottedValue(all_subnets[n].broadcast)
                 = WAddInt(WAdd(base_network_int, WPow2(32 - original_mask)), -1)
           /\ WLeq(LastAddress(base_network_int, new_mask, total_subnets), TopAddress)
           /\ \A k \in 1..n :
                 /\ DottedValue(all_subnets[k].network)
                       = WAdd(base_network_int, WMulInt(k - 1, size))
                 /\ DottedValue(all_subnets[k].broadcast)
                       = WAddInt(WAdd(base_network_int, WMulInt(k, size)), -1)

C10_Witness ==
    /\ pc = "done"
    /\ input_ipv4_address = Txt(<<255, 255, 255, 255>>)
    /\ original_mask = 28
    /\ total_subnets = 16
    /\ all_subnets[1].network = Txt(<<255, 255, 255, 240>>)
    /\ all_subnets[16].broadcast = Txt(<<255, 255, 255, 255>>)

====
